---- MODULE Spec2Model ----
(***************************************************************************)
(* Model of clear.py: the Streamlit script that sends free-text service    *)
(* records to an external extractor, validates the reply into a ten-field  *)
(* table kept in st.session_state['df'], and exports the table to a        *)
(* spreadsheet.                                                            *)
(*                                                                         *)
(* Strings of the source that are not ASCII are transliterated:            *)
(*   shifu, xiangmu, dizhi, fanghao, kehu_xingming, dianhua_haoma,         *)
(*   fuwu_neirong, feiyong, zhifu_zhuangtai, beizhu  (the ten columns)     *)
(*   weizhifu = the unpaid marker, yizhifu = the paid marker.              *)
(*                                                                         *)
(* A text is a sequence of one-character strings.  A reply element is a    *)
(* record [isdict, items, repr]: items is the set of <<key, value>> pairs  *)
(* of a dict, repr the printed form of a non-dict value.                   *)
(***************************************************************************)
EXTENDS Naturals, Sequences, FiniteSets

VARIABLES
    pc,              \* position of the script run
    input_text,      \* st.text_area value of the run
    deepseek_api_key,\* key seen by the run ("" = none)
    idx,             \* position of the probe loop in endpoints
    endpoint,        \* loop variable of the probe loop ("" = unbound)
    success,         \* probe flag
    error_messages,  \* per-endpoint failure reasons
    attempts,        \* endpoints on which a probe call was issued, in order
    calls,           \* extractor calls of the run: probes and extraction
    client,          \* base_url of the client used for the extraction ("" = none)
    response,        \* reply of the extraction call
    data,            \* rows built by the validator
    errors,          \* errors collected by the validator
    shown,           \* messages written to the page by the run
    stop_reason,     \* why the run called st.stop() ("" = it did not)
    session_df,      \* st.session_state['df']
    reset_table,     \* st.session_state['reset_table']
    df_before,       \* st.session_state['df'] when the run started
    export,          \* the spreadsheet written by the run
    runs,            \* button clicks so far
    edits            \* grid edits so far

vars == <<pc, input_text, deepseek_api_key, idx, endpoint, success,
          error_messages, attempts, calls, client, response, data, errors,
          shown, stop_reason, session_df, reset_table, df_before, export,
          runs, edits>>

-----------------------------------------------------------------------------
(* Bounds of the model *)

MaxReply == 3

MaxRuns == 2

MaxEdits == 1

-----------------------------------------------------------------------------
(* Program constants *)

columns == <<"shifu", "xiangmu", "dizhi", "fanghao", "kehu_xingming",
             "dianhua_haoma", "fuwu_neirong", "feiyong", "zhifu_zhuangtai",
             "beizhu">>

endpoints == <<"https://api.deepseek.com", "https://api.deepseek.com/v1",
               "https://api.deepseek.cc">>

max_records == 50

-----------------------------------------------------------------------------
(* Input text: str.strip(), str.split('\n') *)

IsSpace(c) == c \in {" ", "\n"}

RECURSIVE LStrip(_)
LStrip(s) ==
    IF s = <<>> THEN <<>>
    ELSE IF IsSpace(Head(s)) THEN LStrip(Tail(s)) ELSE s

RECURSIVE RStrip(_)
RStrip(s) ==
    IF s = <<>> THEN <<>>
    ELSE IF IsSpace(s[Len(s)]) THEN RStrip(SubSeq(s, 1, Len(s) - 1)) ELSE s

Strip(s) == RStrip(LStrip(s))

RECURSIVE CountNewlines(_)
CountNewlines(s) ==
    IF s = <<>> THEN 0
    ELSE (IF Head(s) = "\n" THEN 1 ELSE 0) + CountNewlines(Tail(s))

\* len(input_text.strip().split('\n'))
line_count(text) == CountNewlines(Strip(text)) + 1

RECURSIVE Text(_)
Text(n) ==
    IF n = 0 THEN <<>>
    ELSE IF n = 1 THEN <<"a">>
    ELSE Text(n - 1) \o <<"\n", "a">>

Pad(t) == <<"\n">> \o t \o <<"\n", " ">>

\* a blank text, a text of max_records lines and one of max_records + 1
\* lines, each between blank lines as sample_text is
InputTexts ==
    { <<" ", "\n">>, Pad(Text(max_records)), Pad(Text(max_records + 1)) }

ApiKeys == {"", "sk-key"}

-----------------------------------------------------------------------------
(* Extractor replies *)

FullDict ==
    [isdict |-> TRUE,
     items  |-> {<<"shifu", "a1">>, <<"xiangmu", "a2">>, <<"dizhi", "a3">>,
                 <<"fanghao", "a4">>, <<"kehu_xingming", "a5">>,
                 <<"dianhua_haoma", "a6">>, <<"fuwu_neirong", "a7">>,
                 <<"feiyong", "a8">>, <<"zhifu_zhuangtai", "yizhifu">>,
                 <<"beizhu", "a10">>},
     repr   |-> ""]

\* a dict with schema keys missing, a key outside the schema and a key that
\* differs from a schema key only in case
PartialDict ==
    [isdict |-> TRUE,
     items  |-> {<<"shifu", "b1">>, <<"zhifu_zhuangtai", "weizhifu">>,
                 <<"extra", "x">>, <<"Beizhu", "y">>},
     repr   |-> ""]

NonDict == [isdict |-> FALSE, items |-> {}, repr |-> "5"]

Elements == {FullDict, PartialDict, NonDict}

Replies == UNION { [1..n -> Elements] : n \in 0..MaxReply }

\* message.content: nothing, text eval() raises on, text that evaluates to a
\* value that is not a list, text that evaluates to a list
Contents ==
    { [form |-> "empty", elems |-> <<>>],
      [form |-> "garbage", elems |-> <<>>],
      [form |-> "scalar", elems |-> <<>>] }
    \cup { [form |-> "list", elems |-> r] : r \in Replies }

NoResponse == [choices |-> FALSE, content |-> [form |-> "empty", elems |-> <<>>]]

Responses == {NoResponse} \cup { [choices |-> TRUE, content |-> c] : c \in Contents }

-----------------------------------------------------------------------------
(* Response validation *)

\* the keys of the ten record.get calls, in the order they are written
record_keys == <<"shifu", "xiangmu", "dizhi", "fanghao", "kehu_xingming",
                 "dianhua_haoma", "fuwu_neirong", "feiyong", "zhifu_zhuangtai",
                 "beizhu">>

\* dict.get(key, default)
Get(items, key, default) ==
    IF \E p \in items : p[1] = key
    THEN (CHOOSE p \in items : p[1] = key)[2]
    ELSE default

\* RecordOf with the cost and payment-status keys exchanged
RecordOf_swapped(record) ==
    [i \in 1..Len(record_keys) |->
        Get(record.items,
            record_keys[IF i = 8 THEN 9 ELSE IF i = 9 THEN 8 ELSE i], "")]

\* the row appended for a dict element
RecordOf(record) ==
    [i \in 1..Len(record_keys) |-> Get(record.items, record_keys[i], "")]

\* the error appended for an element that is not a dict, given the rows so far
RecordError(d, record) ==
    [kind |-> "record", n |-> Len(d) + 1, raw |-> record.repr]

\* ValidateLoop leaving the loop at the first element that is not a dict
RECURSIVE ValidateLoop_break(_, _, _, _)
ValidateLoop_break(parsed, i, d, e) ==
    IF i > Len(parsed) THEN [data |-> d, errors |-> e]
    ELSE IF parsed[i].isdict
         THEN ValidateLoop_break(parsed, i + 1, Append(d, RecordOf(parsed[i])), e)
         ELSE [data |-> d, errors |-> Append(e, RecordError(d, parsed[i]))]

RECURSIVE ValidateLoop(_, _, _, _)
ValidateLoop(parsed, i, d, e) ==
    IF i > Len(parsed) THEN [data |-> d, errors |-> e]
    ELSE IF parsed[i].isdict
         THEN ValidateLoop(parsed, i + 1, Append(d, RecordOf(parsed[i])), e)
         ELSE ValidateLoop(parsed, i + 1, d, Append(e, RecordError(d, parsed[i])))

\* for record in parsed_data: ...
ValidateList(parsed) == ValidateLoop(parsed, 1, <<>>, <<>>)

\* ValidateReply without the except clause
ValidateReply_uncaught(content) ==
    IF content.form = "garbage"
    THEN [data |-> <<>>, errors |-> <<>>, raised |-> TRUE]
    ELSE IF content.form = "list"
    THEN [data |-> ValidateList(content.elems).data,
          errors |-> ValidateList(content.elems).errors,
          raised |-> FALSE]
    ELSE [data |-> <<>>,
          errors |-> <<[kind |-> "not_a_list", n |-> 0, raw |-> ""]>>,
          raised |-> FALSE]

\* try: eval(content) ... except Exception: ...
\* raised = an exception left the try statement
ValidateReply(content) ==
    IF content.form = "garbage"
    THEN [data |-> <<>>,
          errors |-> <<[kind |-> "parse_failed", n |-> 0, raw |-> "diagnostic"]>>,
          raised |-> FALSE]
    ELSE IF content.form = "list"
    THEN [data |-> ValidateList(content.elems).data,
          errors |-> ValidateList(content.elems).errors,
          raised |-> FALSE]
    ELSE [data |-> <<>>,
          errors |-> <<[kind |-> "not_a_list", n |-> 0, raw |-> ""]>>,
          raised |-> FALSE]

\* pd.DataFrame(rows, columns=cols)
DataFrame(rows, cols) == [present |-> TRUE, columns |-> cols, rows |-> rows]

NoDF == [present |-> FALSE, columns |-> <<>>, rows |-> <<>>]

-----------------------------------------------------------------------------
(* Page output *)

Msg(level, kind, n, raw) == [level |-> level, kind |-> kind, n |-> n, raw |-> raw]

\* st.error(error) for each collected error
RECURSIVE ErrorLines(_)
ErrorLines(es) ==
    IF es = <<>> THEN <<>>
    ELSE <<Msg("error", Head(es).kind, Head(es).n, Head(es).raw)>>
         \o ErrorLines(Tail(es))

\* what the run prints after validation
ResultReport(d, e) ==
    IF d # <<>>
    THEN <<Msg("success", "parsed", Len(d), "")>>
    ELSE <<Msg("error", "no_records", 0, "")>>
         \o (IF e # <<>>
             THEN <<Msg("warning", "error_count", Len(e), "")>> \o ErrorLines(e)
             ELSE <<>>)

\* what the run prints when no endpoint answered the probe
ProbeFailureReport(msgs) ==
    <<Msg("error", "key_check_failed", 0, ""),
      Msg("info", "check", 0, ""), Msg("info", "check", 1, ""),
      Msg("info", "check", 2, ""), Msg("info", "check", 3, "")>>
    \o [i \in 1..Len(msgs) |-> Msg("error", "endpoint", 0, msgs[i])]

CallFailureReport ==
    <<Msg("error", "call_failed", 0, ""),
      Msg("info", "advice", 0, ""), Msg("info", "advice", 1, ""),
      Msg("info", "advice", 2, ""), Msg("info", "advice", 3, "")>>

-----------------------------------------------------------------------------
(* Export *)

NoExport ==
    [engine |-> "none", header |-> <<>>, rows |-> <<>>, cond_formats |-> {},
     freeze_panes |-> <<>>, autofilter |-> <<>>]

\* worksheet.conditional_format(first_row, first_col, last_row, last_col, ...)
conditional_format(df, value, format) ==
    [first_row |-> 1, first_col |-> 7, last_row |-> Len(df.rows),
     last_col |-> 7, criteria |-> "containing", value |-> value,
     format |-> format]

\* the xlsxwriter path
FormattedExport(df) ==
    [engine |-> "xlsxwriter", header |-> df.columns, rows |-> df.rows,
     cond_formats |-> { conditional_format(df, "weizhifu", "#FFC7CE"),
                        conditional_format(df, "yizhifu", "#C6EFCE") },
     freeze_panes |-> <<1, 0>>,
     autofilter |-> <<0, 0, Len(df.rows), Len(df.columns) - 1>>]

\* the openpyxl path taken when the xlsxwriter path raises
PlainExport(df) ==
    [engine |-> "openpyxl", header |-> df.columns, rows |-> df.rows,
     cond_formats |-> {}, freeze_panes |-> <<>>, autofilter |-> <<>>]

-----------------------------------------------------------------------------
(* The script *)

Init ==
    /\ pc = "idle"
    /\ input_text = <<>>
    /\ deepseek_api_key = ""
    /\ idx = 1
    /\ endpoint = ""
    /\ success = FALSE
    /\ error_messages = <<>>
    /\ attempts = <<>>
    /\ calls = 0
    /\ client = ""
    /\ response = NoResponse
    /\ data = <<>>
    /\ errors = <<>>
    /\ shown = <<>>
    /\ stop_reason = ""
    /\ session_df = NoDF
    /\ reset_table = "unset"
    /\ df_before = NoDF
    /\ export = NoExport
    /\ runs = 0
    /\ edits = 0

Resting == pc \in {"idle", "stopped", "done"}

\* a script run starts with fresh locals and an empty page
FreshRun ==
    /\ idx' = 1
    /\ endpoint' = ""
    /\ success' = FALSE
    /\ error_messages' = <<>>
    /\ attempts' = <<>>
    /\ calls' = 0
    /\ client' = ""
    /\ response' = NoResponse
    /\ data' = <<>>
    /\ errors' = <<>>
    /\ df_before' = session_df

\* st.stop()
Stop(reason, page) ==
    /\ pc' = "stopped"
    /\ stop_reason' = reason
    /\ shown' = page

\* the button is pressed: the pre-flight checks of the input and of the key
ClickConvert ==
    /\ Resting
    /\ runs < MaxRuns
    /\ runs' = runs + 1
    /\ FreshRun
    /\ export' = NoExport
    /\ reset_table' = "True"
    /\ \E text \in InputTexts, key \in ApiKeys :
          /\ input_text' = text
          /\ deepseek_api_key' = key
          /\ IF Strip(text) = <<>>
             THEN Stop("input_empty", <<Msg("warning", "input_empty", 0, "")>>)
             ELSE IF key = ""
             THEN Stop("no_key", <<Msg("error", "no_key", 0, "")>>)
             ELSE /\ pc' = "probe"
                  /\ stop_reason' = ""
                  /\ shown' = <<>>
    /\ UNCHANGED <<session_df, edits>>

\* ProbeEndpoint without the break after a successful test call
ProbeEndpoint_noBreak ==
    /\ pc = "probe"
    /\ idx <= Len(endpoints)
    /\ endpoint' = endpoints[idx]
    /\ attempts' = Append(attempts, endpoints[idx])
    /\ calls' = calls + 1
    /\ idx' = idx + 1
    /\ pc' = IF idx = Len(endpoints) THEN "probed" ELSE "probe"
    /\ \/ /\ success' = TRUE
          /\ shown' = Append(shown, Msg("success", "endpoint_ok", 0, endpoints[idx]))
          /\ UNCHANGED error_messages
       \/ UNCHANGED <<success, shown, error_messages>>
       \/ /\ error_messages' = Append(error_messages, endpoints[idx])
          /\ UNCHANGED <<success, shown>>
    /\ UNCHANGED <<input_text, deepseek_api_key, client, response, data, errors,
                   stop_reason, session_df, reset_table, df_before, export,
                   runs, edits>>

\* one iteration of: for endpoint in endpoints
ProbeEndpoint ==
    /\ pc = "probe"
    /\ idx <= Len(endpoints)
    /\ endpoint' = endpoints[idx]
    /\ attempts' = Append(attempts, endpoints[idx])
    /\ calls' = calls + 1
    /\ \/ \* the test call returns choices
          /\ success' = TRUE
          /\ shown' = Append(shown, Msg("success", "endpoint_ok", 0, endpoints[idx]))
          /\ pc' = "probed"
          /\ UNCHANGED <<idx, error_messages>>
       \/ \* the test call returns no choices
          /\ idx' = idx + 1
          /\ pc' = IF idx = Len(endpoints) THEN "probed" ELSE "probe"
          /\ UNCHANGED <<success, shown, error_messages>>
       \/ \* the test call raises
          /\ error_messages' = Append(error_messages, endpoints[idx])
          /\ idx' = idx + 1
          /\ pc' = IF idx = Len(endpoints) THEN "probed" ELSE "probe"
          /\ UNCHANGED <<success, shown>>
    /\ UNCHANGED <<input_text, deepseek_api_key, client, response, data, errors,
                   stop_reason, session_df, reset_table, df_before, export,
                   runs, edits>>

\* after the loop: the failure report, the max_records check, the client
AfterProbe ==
    /\ pc = "probed"
    /\ IF ~success
       THEN /\ Stop("unreachable", shown \o ProbeFailureReport(error_messages))
            /\ UNCHANGED client
       ELSE IF line_count(input_text) > max_records
       THEN /\ Stop("too_large",
                    Append(shown, Msg("warning", "too_many_lines",
                                      line_count(input_text), "")))
            /\ UNCHANGED client
       ELSE /\ client' = endpoint
            /\ pc' = "extract"
            /\ UNCHANGED <<stop_reason, shown>>
    /\ UNCHANGED <<input_text, deepseek_api_key, idx, endpoint, success,
                   error_messages, attempts, calls, response, data, errors,
                   session_df, reset_table, df_before, export, runs, edits>>

\* the grid hands its data back, the table is saved and exported
Render(grid_data, page) ==
    /\ session_df' = DataFrame(grid_data, columns)
    /\ \/ /\ export' = FormattedExport(session_df')
          /\ shown' = page
       \/ /\ export' = PlainExport(session_df')
          /\ shown' = Append(page, Msg("warning", "plain_export", 0, ""))

\* CallFailed dropping the stored table
CallFailed_clearsTable ==
    /\ Stop("call_failed", shown \o CallFailureReport)
    /\ session_df' = NoDF
    /\ UNCHANGED <<response, data, errors, reset_table, export>>

\* except Exception around the extraction call
CallFailed ==
    /\ Stop("call_failed", shown \o CallFailureReport)
    /\ UNCHANGED <<response, data, errors, session_df, reset_table, export>>

\* the reply r is checked, evaluated, turned into rows and reported, and the
\* stored table, if there is one, is shown and exported
Validate(r) ==
    /\ response' = r
    /\ IF ~r.choices \/ r.content.form = "empty"
       THEN /\ Stop("empty_reply", Append(shown, Msg("error", "no_records", 0, "")))
            /\ UNCHANGED <<data, errors, session_df, reset_table, export>>
       ELSE LET v == ValidateReply(r.content)
                page == shown \o ResultReport(v.data, v.errors)
            IN  IF v.raised
                THEN /\ pc' = "crashed"
                     /\ UNCHANGED <<data, errors, session_df, reset_table,
                                    export, stop_reason, shown>>
                ELSE /\ data' = v.data
                     /\ errors' = v.errors
                     /\ reset_table' = IF v.data # <<>> THEN "False" ELSE reset_table
                     /\ pc' = "done"
                     /\ UNCHANGED stop_reason
                     /\ IF v.data # <<>>
                        THEN Render(v.data, page)
                        ELSE IF session_df.present
                        THEN Render(session_df.rows, page)
                        ELSE /\ shown' = page
                             /\ UNCHANGED <<session_df, export>>

\* client.chat.completions.create(...) with the parsing prompt, and the rest
\* of the script
Extract ==
    /\ pc = "extract"
    /\ calls' = calls + 1
    /\ \/ CallFailed
       \/ \E r \in Responses : Validate(r)
    /\ UNCHANGED <<input_text, deepseek_api_key, idx, endpoint, success,
                   error_messages, attempts, client, df_before, runs, edits>>

\* the edits tried: the unpaid marker typed into the payment-status column
EditValues == {"weizhifu"}

EditColumns == {9}

\* a cell of the grid is edited: the script runs again without the button
EditCell ==
    /\ Resting
    /\ session_df.present
    /\ edits < MaxEdits
    /\ edits' = edits + 1
    /\ FreshRun
    /\ pc' = "done"
    /\ stop_reason' = ""
    /\ \E row \in 1..Len(session_df.rows), col \in EditColumns,
          value \in EditValues :
          /\ session_df.rows[row][col] # value
          /\ Render([session_df.rows EXCEPT ![row][col] = value], <<>>)
    /\ UNCHANGED <<input_text, deepseek_api_key, reset_table, runs>>

Next ==
    \/ ClickConvert
    \/ ProbeEndpoint
    \/ AfterProbe
    \/ Extract
    \/ EditCell

Spec == Init /\ [][Next]_vars

-----------------------------------------------------------------------------
(* Properties *)

Range(f) == { f[i] : i \in DOMAIN f }

IsDict(e) == e.isdict

IsNotDict(e) == ~e.isdict

\* the run evaluated its reply to a list and went through the validation loop
ValidatedList ==
    /\ pc = "done"
    /\ response.choices
    /\ response.content.form = "list"

ReplyElems == response.content.elems

SchemaKeys == Range(columns)

Keys(e) == { p[1] : p \in e.items }

\* the positions of the elements of a reply that are not dicts, in order
RECURSIVE MalformedFrom(_, _)
MalformedFrom(elems, i) ==
    IF i > Len(elems) THEN <<>>
    ELSE (IF elems[i].isdict THEN <<>> ELSE <<i>>) \o MalformedFrom(elems, i + 1)

MalformedPositions(elems) == MalformedFrom(elems, 1)

\* C1: a reply list with N dict elements and M other elements, in any
\* interleaving, gives exactly N rows, in the order of the dict elements, and
\* exactly M record errors; an element that is not a dict does not end the loop.
C1_IsolatedRecords ==
    ValidatedList =>
        LET good == SelectSeq(ReplyElems, IsDict)
            bad  == SelectSeq(ReplyElems, IsNotDict)
        IN  /\ Len(data) = Len(good)
            /\ \A j \in 1..Len(good) :
                  \A i \in 1..Len(columns) :
                     data[j][i] = Get(good[j].items, columns[i], "")
            /\ Len(errors) = Len(bad)
            /\ \A j \in 1..Len(errors) :
                  errors[j].kind = "record" /\ errors[j].raw = bad[j].repr

\* a malformed element stands before two different dict elements
C1_Witness ==
    /\ ValidatedList
    /\ Len(ReplyElems) = 3
    /\ ~ReplyElems[1].isdict
    /\ ReplyElems[2] = PartialDict
    /\ ReplyElems[3] = FullDict
    /\ Len(data) = 2
    /\ Len(errors) = 1

\* C2: every row has exactly the ten schema fields in schema order: a field
\* the element has under its exact key is copied, a field it lacks is the
\* empty string, other keys are dropped; a reply of ten-key dicts gives as
\* many rows as it has elements and no error; the table gets these rows
\* under the schema's columns.
C2_SchemaRows ==
    ValidatedList =>
        LET good == SelectSeq(ReplyElems, IsDict)
        IN  /\ Len(data) = Len(good)
            /\ \A j \in 1..Len(data) :
                  /\ Len(data[j]) = 10
                  /\ Len(data[j]) = Len(columns)
                  /\ \A i \in 1..Len(columns) :
                        IF columns[i] \in Keys(good[j])
                        THEN <<columns[i], data[j][i]>> \in good[j].items
                        ELSE data[j][i] = ""
            /\ (\A k \in 1..Len(ReplyElems) :
                    ReplyElems[k].isdict /\ Keys(ReplyElems[k]) = SchemaKeys)
               => (Len(data) = Len(ReplyElems) /\ errors = <<>>)
            /\ data # <<>>
               => session_df = [present |-> TRUE, columns |-> columns, rows |-> data]

\* a row built from a dict with missing and foreign keys, beside a full one
C2_Witness ==
    /\ ValidatedList
    /\ ReplyElems = <<PartialDict, FullDict>>
    /\ data[1][1] = "b1"
    /\ data[1][2] = ""
    /\ data[2][9] = "yizhifu"

\* C3: a run whose input has more than max_records lines does not reach the
\* extraction, and when it is rejected for its size it has made no call to
\* the extractor, probes included.
C3_NoCallWhenTooLarge ==
    /\ line_count(input_text) > max_records => pc # "extract"
    /\ stop_reason = "too_large" => calls = 0

NumErrorsShown == Len(SelectSeq(shown, LAMBDA m : m.level = "error"))

\* C4: a reply without content stops the run with no row, no stored change
\* and exactly one error on the page; a reply that eval() raises on gives no
\* row and exactly one error, which is global; no exception leaves the
\* validator.
C4_EmptyOrUnparseable ==
    /\ pc # "crashed"
    /\ stop_reason = "empty_reply" =>
          /\ pc = "stopped"
          /\ data = <<>>
          /\ errors = <<>>
          /\ NumErrorsShown = 1
          /\ session_df = df_before
    /\ (pc = "done" /\ client # "") =>
          (response.choices /\ response.content.form # "empty")
    /\ (pc = "done" /\ response.choices
            /\ response.content.form = "garbage") =>
          /\ data = <<>>
          /\ Len(errors) = 1
          /\ errors[1].kind = "parse_failed"
          /\ errors[1].n = 0
          /\ session_df = df_before

\* the run reached its end after a reply that eval() raised on
C4_Witness ==
    /\ pc = "done"
    /\ response.choices
    /\ response.content.form = "garbage"
    /\ Len(errors) = 1

\* C5: a run that ends because no endpoint answered or because the
\* extraction call raised is stopped with st.session_state['df'] as it was
\* when the run began.
C5_TableKeptOnFailure ==
    stop_reason \in {"unreachable", "call_failed"} =>
        (pc = "stopped" /\ session_df = df_before)

\* the extraction call fails in a run that follows a successful run and an edit
C5_Witness ==
    /\ stop_reason = "call_failed"
    /\ df_before.present
    /\ edits > 0
    /\ runs > 1

\* C6: the endpoints are tried in their listed order, each at most once;
\* the loop is left at the first success; the extraction is reached only
\* after a success, with the client on the endpoint that succeeded.
C6_ProbeStateMachine ==
    /\ attempts = SubSeq(endpoints, 1, Len(attempts))
    /\ success =>
          /\ pc # "probe"
          /\ attempts # <<>>
          /\ endpoint = attempts[Len(attempts)]
          /\ Msg("success", "endpoint_ok", 0, endpoint) \in Range(shown)
    /\ (pc = "extract" \/ client # "") =>
          /\ success
          /\ client = endpoint
    /\ \A m \in Range(shown) :
          m.kind = "endpoint_ok" => (success /\ m.raw = endpoint)

\* the second endpoint succeeds after the first failed
C6_Witness ==
    /\ pc = "extract"
    /\ Len(attempts) = 2
    /\ client = endpoints[2]

\* C7: when every endpoint fails the run stops without an extraction call
\* and the report has one reason for each endpoint that was tried, an
\* endpoint that returned no choices included.
C7_ReasonPerEndpoint ==
    stop_reason = "unreachable" =>
        /\ client = ""
        /\ calls = Len(attempts)
        /\ \A i \in 1..Len(attempts) :
              Msg("error", "endpoint", 0, attempts[i]) \in Range(shown)

\* C8: every error the validator collected is on the page, also when rows
\* were built.
C8_ErrorsSurfaced ==
    pc \in {"done", "stopped"} =>
        \A i \in 1..Len(errors) :
            Msg("error", errors[i].kind, errors[i].n, errors[i].raw) \in Range(shown)

\* C9: the error of an element that is not a dict carries the 1-based
\* position of that element in the reply list.
C9_ErrorPosition ==
    ValidatedList =>
        LET bad == MalformedPositions(ReplyElems)
        IN  \A j \in 1..Len(errors) : j <= Len(bad) => errors[j].n = bad[j]

\* C10: the two conditional formats of the export cover the payment-status
\* column, and only it, over the rows 1..len(df).
C10_FormatsOnPaymentStatus ==
    export.engine = "xlsxwriter" =>
        /\ { f.value : f \in export.cond_formats } = {"weizhifu", "yizhifu"}
        /\ \A f \in export.cond_formats :
              /\ export.header[f.first_col + 1] = "zhifu_zhuangtai"
              /\ f.last_col = f.first_col
              /\ f.first_row = 1
              /\ f.last_row = Len(export.rows)

=============================================================================
